---- MODULE Spec2Model ----
(***************************************************************************)
(* mobile_use/main.py: the run orchestrator run_automation with the        *)
(* service bootstrap run_servers and the health probe it calls.            *)
(*                                                                         *)
(* One run is one sequential task, so the program position is one variable *)
(* pc.  The collaborators outside main.py (device resolution, the bridge,  *)
(* the screen API, the planning engine's stream, the structured-output     *)
(* generator, the trace compiler) are inputs: every outcome they can hand  *)
(* to main.py is chosen with \E where main.py reads it.                    *)
(***************************************************************************)
EXTENDS Integers, Sequences, FiniteSets, TLC

(* ------------------------------ bounds -------------------------------- *)

\* the longest stream of chunks the planning engine emits in one run
MaxChunks == 2

(* --------------------------- value domains ---------------------------- *)

\* Python None for an Optional value; Some(x) is a present value
None == <<>>

Some(x) == <<x>>

\* truthiness of an Optional[str]: None and "" are falsy
TruthyStr(o) == o # None /\ o[1] # ""

\* truthiness of an Optional[dict]: None and {} are falsy
TruthyDict(o) == o # None /\ o[1] # {}

\* truthiness of an Optional[float]: None and 0.0 are falsy
TruthyNum(o) == o # None /\ o[1] # 0

\* what time.time() can return at line 217: the seconds since the epoch, a
\* positive number on every run
StartTimes == {1}

\* what get_first_device_id can return
DeviceIds == {None, Some(""), Some("emulator-5554")}

\* the test_name argument of run_automation
TestNames == {None, Some("login")}

\* BridgeStatus values
BridgeStatuses == {"STARTING", "RUNNING", "NO_DEVICE", "FAILED", "PORT_IN_USE", "STOPPED"}

\* failed_statuses of run_servers
failed_statuses == {"NO_DEVICE", "FAILED", "PORT_IN_USE", "STOPPED"}

\* what start_device_screen_api(use_process=True) can hand back:
\* nothing, a handle that is no multiprocessing.Process, a Process
ApiHandles == {"none", "thread", "process"}

\* the agents_thoughts lists a snapshot can carry: none yet, a list that
\* grows from one snapshot to the next, and a list that does not extend the
\* one before it
ThoughtLists == {<<>>, <<"t1">>, <<"t1", "t2">>, <<"t2">>}

\* the payload of a "values" chunk: the dict the State is built from
Contents == {[agents_thoughts |-> s] : s \in ThoughtLists}

\* a chunk of the stream is the pair (stream_mode, content)
Chunks ==
    {<<"values", c>> : c \in Contents} \cup {<<"messages", "token">>, <<"custom", "event">>}

\* what the outputter can return: a dict, possibly the empty one
Payloads == {{}, {<<"price", "10">>}}

\* the timestamp string convert_timestamp_to_str(start_time) yields
formatted_ts == "ts"

(* ------------------------------ state --------------------------------- *)

VARIABLES
    \* arguments of run_automation and the ambient settings
    test_name,            \* Optional[str]
    needs_structured,     \* output_config and output_config.needs_structured_format()
    bridge_url_set,       \* settings.DEVICE_HARDWARE_BRIDGE_BASE_URL is set
    api_url_set,          \* settings.DEVICE_SCREEN_API_BASE_URL is set
    \* locals of run_automation
    pc,
    device_id,
    restart_attempt,
    success,
    last_state,
    structured_output,
    status_tag,           \* status of line 295, "" before it is computed
    new_name,             \* new_name of line 296, None before
    early_return,         \* the return of line 274 is pending while finally runs
    exc,                  \* the exception in flight: "none", "stream", "finalize"
    traces_temp_path,     \* Optional[Path]
    traces_output_path,   \* Optional[Path]
    start_time,           \* Optional[float]: None before line 217
    \* locals of run_servers
    api_process,
    status,
    pollClock,            \* time.sleep(1) calls of this run_servers call, modulo 2
    \* the world
    bridgeLive,           \* a bridge started by this run is running
    bridgeLeft,           \* a bridge started by an earlier run_servers call was running
                          \* when this call started its own
    apiLive,              \* a screen API started by this run is running
    tempExists,           \* the temp trace directory exists
    outDir,               \* the names present under traces_output_path
    recorded,             \* record_events calls on results_output_path, in order
    outcome,              \* how run_automation ended: "running", "returned", "raised"
    result,               \* the value returned
    error,                \* the exception the caller receives
    \* history of the run
    rsCalls,              \* run_servers calls
    rsResults,            \* the values run_servers returned, in order
    sleeps3,              \* time.sleep(3) calls
    bridgeStarts,         \* start_device_hardware_bridge calls
    apiStarts,            \* start_device_screen_api calls
    stopCalls,            \* stop_servers calls, each <<device_screen_api, device_hardware_bridge>>
    terminateCalls,       \* api_process.terminate() calls
    deviceLookups,        \* get_first_device_id calls
    graphCalls,           \* get_graph(...).astream(...) calls
    consumed,             \* the chunks received from the stream, in order
    streamExit,           \* how the try body was left: "none", "completed", "nosnapshot", "raised"
    outputterCalls,
    outputterRaised,
    finSteps,             \* the finalization steps performed, in order
    attemptLog,           \* what this run_servers call did so far, in order: <<step, outcome>>;
                          \* consecutive reads of STARTING are kept as one entry
    trail,                \* the phases the run entered, in order
    logCalls,             \* the lists log_agent_thoughts was called with, in order
    probes                \* the results of the health probes of the run, in order

config == <<test_name, needs_structured, bridge_url_set, api_url_set>>

locals == <<device_id, restart_attempt, success, last_state, structured_output,
            status_tag, new_name, early_return, exc>>

rsLocals == <<api_process, status, pollClock, attemptLog>>

services == <<bridgeLive, bridgeLeft, apiLive, bridgeStarts, apiStarts, stopCalls,
              terminateCalls>>

files == <<traces_temp_path, traces_output_path, start_time, tempExists, outDir,
           finSteps>>

ending == <<recorded, outcome, result, error>>

bootHist == <<rsCalls, rsResults, sleeps3, deviceLookups, probes>>

streamHist == <<graphCalls, consumed, streamExit, outputterCalls, outputterRaised, logCalls>>

vars == <<config, pc, locals, rsLocals, services, files, ending, bootHist, streamHist,
          trail>>

(* ------------------------- run_automation: start ----------------------- *)

\* a bug: one attempt too many
max_restart_attempts_Four == 3 + 1

\* max_restart_attempts of run_automation
max_restart_attempts == 3

Init ==
    /\ test_name \in TestNames
    /\ needs_structured \in BOOLEAN
    /\ bridge_url_set \in BOOLEAN
    /\ api_url_set \in BOOLEAN
    /\ pc = "resolve"
    /\ device_id = None
    /\ restart_attempt = 0
    /\ success = FALSE
    /\ last_state = None
    /\ structured_output = None
    /\ status_tag = ""
    /\ new_name = None
    /\ early_return = FALSE
    /\ exc = "none"
    /\ traces_temp_path = None
    /\ traces_output_path = None
    /\ api_process = "none"
    /\ status = "none"
    /\ pollClock = 0
    /\ attemptLog = <<>>
    /\ trail = <<>>
    /\ logCalls = <<>>
    /\ probes = <<>>
    /\ bridgeLive = FALSE
    /\ bridgeLeft = FALSE
    /\ start_time = None
    /\ apiLive = FALSE
    /\ tempExists = FALSE
    /\ outDir = {}
    /\ recorded = <<>>
    /\ outcome = "running"
    /\ result = <<"none">>
    /\ error = "none"
    /\ rsCalls = 0
    /\ rsResults = <<>>
    /\ sleeps3 = 0
    /\ bridgeStarts = 0
    /\ apiStarts = 0
    /\ stopCalls = <<>>
    /\ terminateCalls = 0
    /\ deviceLookups = 0
    /\ graphCalls = 0
    /\ consumed = <<>>
    /\ streamExit = "none"
    /\ outputterCalls = 0
    /\ outputterRaised = FALSE
    /\ finSteps = <<>>

\* run_automation returns value r to its caller
Return(r) ==
    /\ pc' = "done"
    /\ outcome' = "returned"
    /\ result' = r
    /\ error' = "none"

\* run_automation ends by raising e to its caller
Raise(e) ==
    /\ pc' = "done"
    /\ outcome' = "raised"
    /\ result' = <<"none">>
    /\ error' = e

\* a bug: "device_id is None", which lets an empty identifier through
NoDevice_OnlyNone(d) == d = None

\* line 187: not device_id
NoDevice(d) == ~TruthyStr(d)

\* lines 186-189: one device lookup; no device ends the run with no result
ResolveDevice ==
    /\ pc = "resolve"
    /\ \E d \in DeviceIds :
        /\ device_id' = d
        /\ deviceLookups' = deviceLookups + 1
        /\ IF NoDevice(d)
           THEN Return(<<"none">>) /\ UNCHANGED recorded
           ELSE pc' = "loop" /\ UNCHANGED ending
    /\ UNCHANGED <<config, restart_attempt, success, last_state, structured_output,
                   status_tag, new_name, early_return, exc, rsLocals, services, files,
                   rsCalls, rsResults, sleeps3, streamHist, trail,
                   probes>>

\* lines 191-192 and 88: the loop test, then the call of run_servers.
\* The loop is never left through its test: the attempt that would make the
\* test false returns at line 206.
LoopHead ==
    /\ pc = "loop"
    /\ IF restart_attempt < max_restart_attempts
       THEN /\ pc' = "rs_bridge"
            /\ rsCalls' = rsCalls + 1
            /\ api_process' = "none"
            /\ status' = "none"
            /\ pollClock' = 0
            /\ attemptLog' = <<>>
            /\ trail' = IF rsCalls = 0 THEN Append(trail, "bootstrap") ELSE trail
       ELSE /\ pc' = "context"
            /\ UNCHANGED <<rsLocals, rsCalls, trail>>
    /\ UNCHANGED <<config, locals, services, files, ending, rsResults, sleeps3,
                   deviceLookups, streamHist,
                   probes>>

(* ----------------------------- run_servers ----------------------------- *)

\* run_servers returns v: line 192 binds it to success
RsReturn(v) ==
    /\ success' = v
    /\ rsResults' = Append(rsResults, v)
    /\ pc' = "rs_check"

\* lines 90-99: start the bridge unless its address is pre-set
StartBridge ==
    /\ pc = "rs_bridge"
    /\ IF bridge_url_set
       THEN /\ pc' = "rs_api"
            /\ UNCHANGED <<success, rsResults, bridgeStarts, bridgeLive, bridgeLeft,
                           attemptLog>>
       ELSE \E started \in BOOLEAN :
            /\ bridgeStarts' = bridgeStarts + 1
            /\ attemptLog' = Append(attemptLog, <<"bridge_start", started>>)
            /\ IF ~started
               THEN RsReturn(FALSE) /\ UNCHANGED <<bridgeLive, bridgeLeft>>
               ELSE /\ bridgeLive' = TRUE
                    /\ bridgeLeft' = bridgeLive
                    /\ pc' = "rs_poll"
                    /\ UNCHANGED <<success, rsResults>>
    /\ UNCHANGED <<config, device_id, restart_attempt, last_state, structured_output,
                   status_tag, new_name, early_return, exc, api_process, status,
                   pollClock, apiLive, apiStarts, stopCalls, terminateCalls, files,
                   ending, rsCalls, sleeps3, deviceLookups, streamHist, trail,
                   probes>>

\* a bug: the RUNNING test is missing, the loop polls on
IsRunning_Never(s) == FALSE

\* line 105: status == BridgeStatus.RUNNING.value
IsRunning(s) == s = "RUNNING"

\* the log of this call with one more status read; a read of STARTING that
\* follows a read of STARTING is not entered again
LogStatus(log, s) ==
    IF log # <<>> /\ log[Len(log)] = <<"status", "STARTING">> /\ s = "STARTING"
    THEN log
    ELSE Append(log, <<"status", s>>)

\* lines 100-123: one iteration of the status loop.  On a failed status
\* run_servers only logs and returns (lines 117-121): it stops no bridge.
\* Whether the bridge that reports the failure has died by itself is for the
\* bridge to decide; a bridge left by an earlier call goes on running.
PollStatus ==
    /\ pc = "rs_poll"
    /\ \E s \in BridgeStatuses :
        /\ status' = s
        /\ attemptLog' = LogStatus(attemptLog, s)
        /\ IF IsRunning(s)
           THEN /\ pc' = "rs_api"
                /\ UNCHANGED <<success, rsResults, bridgeLive, pollClock>>
           ELSE IF s \in failed_statuses
                THEN /\ RsReturn(FALSE)
                     /\ \E died \in BOOLEAN : bridgeLive' = (bridgeLeft \/ ~died)
                     /\ UNCHANGED pollClock
                ELSE /\ pc' = "rs_poll"
                     /\ pollClock' = (pollClock + 1) % 2
                     /\ UNCHANGED <<success, rsResults, bridgeLive>>
    /\ UNCHANGED <<config, device_id, restart_attempt, last_state, structured_output,
                   status_tag, new_name, early_return, exc, api_process, apiLive,
                   bridgeStarts, apiStarts, stopCalls, terminateCalls, files, ending,
                   rsCalls, sleeps3, deviceLookups, streamHist, trail,
                   probes,
                   bridgeLeft>>

\* a bug: the isinstance test is missing
ApiLaunchFailed_OnlyNone(h) == h = "none"

\* line 127: not api_process or not isinstance(api_process, multiprocessing.Process)
ApiLaunchFailed(h) == h = "none" \/ h # "process"

\* lines 125-129: start the screen API unless its address is pre-set
StartScreenApi ==
    /\ pc = "rs_api"
    /\ IF api_url_set
       THEN /\ pc' = "rs_health"
            /\ UNCHANGED <<success, rsResults, api_process, apiStarts, apiLive,
                           attemptLog>>
       ELSE \E h \in ApiHandles :
            /\ apiStarts' = apiStarts + 1
            /\ api_process' = h
            /\ apiLive' = (apiLive \/ h # "none")
            /\ attemptLog' = Append(attemptLog, <<"api_start", h>>)
            /\ IF ApiLaunchFailed(h)
               THEN RsReturn(FALSE)
               ELSE pc' = "rs_health" /\ UNCHANGED <<success, rsResults>>
    /\ UNCHANGED <<config, device_id, restart_attempt, last_state, structured_output,
                   status_tag, new_name, early_return, exc, status, pollClock,
                   bridgeLive, bridgeStarts, stopCalls, terminateCalls, files, ending,
                   rsCalls, sleeps3, deviceLookups, streamHist, trail,
                   probes,
                   bridgeLeft>>

\* stop_servers(device_screen_api, device_hardware_bridge): stops the services named
StopServers(device_screen_api, device_hardware_bridge) ==
    /\ stopCalls' = Append(stopCalls, <<device_screen_api, device_hardware_bridge>>)
    /\ bridgeLive' = (bridgeLive /\ ~device_hardware_bridge)
    /\ apiLive' = (apiLive /\ ~device_screen_api)

\* a bug: the two arguments of stop_servers are crossed
StopFlags_Crossed == <<~bridge_url_set, ~api_url_set>>

\* a bug: both services are stopped, pre-configured or not
StopFlags_All == <<TRUE, TRUE>>

\* lines 68-69: <<restart_screen_api, restart_hw_bridge>>
StopFlags == <<~api_url_set, ~bridge_url_set>>

\* lines 131-137 with check_device_screen_api_health_with_retry_logic (67-80)
HealthCheck ==
    /\ pc = "rs_health"
    /\ \E healthy \in BOOLEAN :
        /\ attemptLog' = Append(attemptLog, <<"health", healthy>>)
        /\ probes' = Append(probes, healthy)
        /\ IF healthy
           THEN /\ RsReturn(TRUE)
                /\ UNCHANGED <<stopCalls, bridgeLive, apiLive, terminateCalls>>
           ELSE /\ StopServers(StopFlags[1], StopFlags[2])
                /\ terminateCalls' = IF api_process # "none" THEN terminateCalls + 1
                                     ELSE terminateCalls
                /\ RsReturn(FALSE)
    /\ UNCHANGED <<config, device_id, restart_attempt, last_state, structured_output,
                   status_tag, new_name, early_return, exc, api_process, status,
                   pollClock, bridgeStarts, apiStarts, files, ending, rsCalls, sleeps3,
                   deviceLookups, streamHist, trail,
                   bridgeLeft>>

(* --------------------- run_automation: the retry loop ------------------ *)

\* a bug: the pause is taken after the final attempt too
PauseBeforeRetry_AlwaysPause(attempt) == attempt <= max_restart_attempts

\* line 197: a pause follows the failed attempt only if another attempt follows
PauseBeforeRetry(attempt) == attempt < max_restart_attempts

\* a bug: the failed attempt is not counted
NextAttempt_NotCounted(n) == n

\* line 196: restart_attempt += 1
NextAttempt(n) == n + 1

\* lines 193-206: the result of run_servers decides break, retry or return
CheckServers ==
    /\ pc = "rs_check"
    /\ IF success
       THEN /\ pc' = "context"
            /\ UNCHANGED <<restart_attempt, sleeps3, ending>>
       ELSE /\ restart_attempt' = NextAttempt(restart_attempt)
            /\ IF PauseBeforeRetry(restart_attempt')
               THEN /\ sleeps3' = sleeps3 + 1
                    /\ pc' = "loop"
                    /\ UNCHANGED ending
               ELSE /\ Return(<<"none">>)
                    /\ UNCHANGED <<sleeps3, recorded>>
    /\ UNCHANGED <<config, device_id, success, last_state, structured_output,
                   status_tag, new_name, early_return, exc, rsLocals, services, files,
                   rsCalls, rsResults, deviceLookups, streamHist, trail,
                   probes>>

(* ------------------ run_automation: context and trace setup ------------ *)

\* line 267: State(**content) builds the State from the fields of the payload
State(content) == [agents_thoughts |-> content.agents_thoughts]

\* lines 208-254: llm config, device context (one screen query, which may
\* raise), trace directories when a test name was given, the graph input,
\* and the two locals the try block starts from
BuildContext ==
    /\ pc = "context"
    /\ \E built \in BOOLEAN :
        IF ~built
        THEN /\ Raise("context")
             /\ UNCHANGED <<recorded, success, last_state, structured_output, files>>
        ELSE /\ IF TruthyStr(test_name)
                THEN /\ traces_output_path' = Some("traces")
                     /\ traces_temp_path' = Some(<<"../traces", test_name[1]>>)
                     /\ tempExists' = TRUE
                ELSE UNCHANGED <<traces_output_path, traces_temp_path, tempExists>>
             /\ \E t \in StartTimes : start_time' = Some(t)
             /\ structured_output' = None
             /\ success' = FALSE
             /\ last_state' = None
             /\ pc' = "invoke"
             /\ UNCHANGED <<ending, outDir, finSteps>>
    /\ trail' = Append(trail, "context")
    /\ UNCHANGED <<config, device_id, restart_attempt, status_tag, new_name,
                   early_return, exc, rsLocals, services, bootHist, streamHist>>

(* ------------------------ run_automation: streaming -------------------- *)

\* lines 257-264: the graph is built and its stream opened
InvokeGraph ==
    /\ pc = "invoke"
    /\ graphCalls' = graphCalls + 1
    /\ pc' = "stream"
    /\ trail' = Append(trail, "streaming")
    /\ UNCHANGED <<config, locals, rsLocals, services, files, ending, bootHist,
                   consumed, streamExit, outputterCalls, outputterRaised, logCalls>>

\* a bug: a snapshot is merged into the state, its thoughts appended
ApplyChunk_Merge(st, chunk) ==
    IF chunk[1] = "values"
    THEN IF st = None THEN Some(State(chunk[2]))
         ELSE Some([agents_thoughts |->
                       st[1].agents_thoughts \o State(chunk[2]).agents_thoughts])
    ELSE st

\* lines 265-267: what one chunk does to last_state
ApplyChunk(st, chunk) ==
    IF chunk[1] = "values" THEN Some(State(chunk[2])) ELSE st

\* lines 257-271: the loop body for one received chunk
ConsumeChunk ==
    /\ pc = "stream"
    /\ Len(consumed) < MaxChunks
    /\ \E chunk \in Chunks :
        /\ consumed' = Append(consumed, chunk)
        /\ last_state' = ApplyChunk(last_state, chunk)
        /\ logCalls' = IF chunk[1] = "values"
                       THEN Append(logCalls, last_state'[1].agents_thoughts)
                       ELSE logCalls
    /\ UNCHANGED <<config, pc, device_id, restart_attempt, success, structured_output,
                   status_tag, new_name, early_return, exc, rsLocals, services, files,
                   ending, bootHist, graphCalls, streamExit, outputterCalls,
                   outputterRaised, trail>>

\* lines 289-291: the stream (or the handling of a chunk) raises; the except
\* clause logs and re-raises, so the exception is in flight when finally runs
StreamRaises ==
    /\ pc = "stream"
    /\ exc' = "stream"
    /\ streamExit' = "raised"
    /\ pc' = "finally"
    /\ UNCHANGED <<config, device_id, restart_attempt, success, last_state,
                   structured_output, status_tag, new_name, early_return, rsLocals,
                   services, files, ending, bootHist, graphCalls, consumed,
                   outputterCalls, outputterRaised, logCalls, trail>>

\* a bug: the check for a stream without snapshot is missing
NoSnapshot_Never(st) == FALSE

\* line 272: not last_state (a State object is always truthy)
NoSnapshot(st) == st = None

\* lines 272-278, 287-288: the stream is exhausted
StreamEnds ==
    /\ pc = "stream"
    /\ IF NoSnapshot(last_state)
       THEN /\ early_return' = TRUE
            /\ streamExit' = "nosnapshot"
            /\ pc' = "finally"
            /\ UNCHANGED success
       ELSE /\ streamExit' = "completed"
            /\ IF needs_structured
               THEN pc' = "outputter" /\ UNCHANGED success
               ELSE pc' = "finally" /\ success' = TRUE
            /\ UNCHANGED early_return
    /\ UNCHANGED <<config, device_id, restart_attempt, last_state, structured_output,
                   status_tag, new_name, exc, rsLocals, services, files, ending,
                   bootHist, graphCalls, consumed, outputterCalls, outputterRaised,
                   logCalls, trail>>

\* what awaiting the outputter gives: a dict, or an exception
OutputterOutcomes == {<<"raise">>} \cup {<<"dict", p>> : p \in Payloads}

\* a bug: the inner try is missing, so an exception of the outputter is
\* handled like one of the stream: line 288 is not reached and it is re-raised
AfterOutputter_Uncaught(o) ==
    IF o[1] = "dict"
    THEN [structured_output |-> Some(o[2]), success |-> TRUE, exc |-> "none"]
    ELSE [structured_output |-> None, success |-> FALSE, exc |-> "stream"]

\* lines 279-288: what the try/except around the outputter leaves behind: its
\* dict, or None when it raised (lines 283-285); either way line 288 is reached
\* and no exception is in flight
AfterOutputter(o) ==
    IF o[1] = "dict"
    THEN [structured_output |-> Some(o[2]), success |-> TRUE, exc |-> "none"]
    ELSE [structured_output |-> None, success |-> TRUE, exc |-> "none"]

\* lines 277-288: the outputter is awaited, then the run is marked successful
GenerateOutput ==
    /\ pc = "outputter"
    /\ outputterCalls' = outputterCalls + 1
    /\ \E o \in OutputterOutcomes :
        /\ structured_output' = AfterOutputter(o).structured_output
        /\ success' = AfterOutputter(o).success
        /\ exc' = AfterOutputter(o).exc
        /\ outputterRaised' = (outputterRaised \/ o[1] = "raise")
    /\ pc' = "finally"
    /\ trail' = Append(trail, "outputter")
    /\ UNCHANGED <<config, device_id, restart_attempt, last_state, status_tag, new_name,
                   early_return, traces_temp_path, traces_output_path, rsLocals,
                   services, tempExists, outDir, finSteps, ending, bootHist, graphCalls,
                   consumed, streamExit, logCalls,
                   start_time>>

(* --------------- run_automation: finally, trace finalization ----------- *)

\* a bug: finalization only when no exception is in flight
FinallyGuard_OnlyWithoutError ==
    /\ traces_temp_path # None /\ traces_output_path # None /\ TruthyNum(start_time)
    /\ exc = "none"

\* a bug: finalization only when an exception is in flight
FinallyGuard_OnlyOnError ==
    /\ traces_temp_path # None /\ traces_output_path # None /\ TruthyNum(start_time)
    /\ exc # "none"

\* line 293: traces_temp_path and traces_output_path and start_time (a Path
\* is always truthy, a clock reading is truthy unless it is 0.0)
FinallyGuard ==
    traces_temp_path # None /\ traces_output_path # None /\ TruthyNum(start_time)

\* a bug: the tag does not read success
StatusTag_AlwaysPass(ok) == "_PASS"

\* line 295
StatusTag(ok) == IF ok THEN "_PASS" ELSE "_FAIL"

\* line 296: f"{test_name}{status}_{formatted_ts}", as the list of its parts
NewName(name, tag, ts) == <<name, tag, "_", ts>>

\* lines 293-296: the tag and the final name, or nothing to finalize
FinalizeBegin ==
    /\ pc = "finally"
    /\ IF FinallyGuard
       THEN /\ status_tag' = StatusTag(success)
            /\ new_name' = Some(NewName(test_name[1], status_tag', formatted_ts))
            /\ pc' = "fin_compile"
       ELSE /\ pc' = "fin_sleep"
            /\ UNCHANGED <<status_tag, new_name>>
    /\ trail' = Append(trail, "finalizing")
    /\ UNCHANGED <<config, device_id, restart_attempt, success, last_state,
                   structured_output, early_return, exc, rsLocals, services, files,
                   ending, bootHist, streamHist>>

\* a bug: an error of a finalization step is swallowed and the finally block
\* goes on to line 310
FinalizeFails_Shielded ==
    /\ pc' = "fin_sleep"
    /\ finSteps' = Append(finSteps, "failed")
    /\ UNCHANGED <<exc, ending, tempExists, outDir>>

\* a finalization step raises inside the finally block: the new exception
\* replaces a pending return or an exception in flight, and line 310 is skipped
FinalizeFails ==
    /\ Raise("finalize")
    /\ exc' = "finalize"
    /\ finSteps' = Append(finSteps, "failed")
    /\ UNCHANGED <<recorded, tempExists, outDir>>

\* lines 298-300: create_gif_from_trace_folder, create_steps_json_from_trace_folder
FinalizeCompile ==
    /\ pc = "fin_compile"
    /\ \E ok \in BOOLEAN :
        IF ok
        THEN /\ finSteps' = Append(finSteps, "compile")
             /\ pc' = "fin_clean"
             /\ UNCHANGED <<tempExists, outDir, exc, ending>>
        ELSE FinalizeFails
    /\ UNCHANGED <<config, device_id, restart_attempt, success, last_state,
                   structured_output, status_tag, new_name, early_return,
                   traces_temp_path, traces_output_path, rsLocals, services, bootHist,
                   streamHist, trail,
                   start_time>>

\* lines 302-305: remove_images_from_trace_folder, remove_steps_json_from_trace_folder
FinalizeClean ==
    /\ pc = "fin_clean"
    /\ \E ok \in BOOLEAN :
        IF ok
        THEN /\ finSteps' = Append(finSteps, "clean")
             /\ pc' = "fin_rename"
             /\ UNCHANGED <<tempExists, outDir, exc, ending>>
        ELSE FinalizeFails
    /\ UNCHANGED <<config, device_id, restart_attempt, success, last_state,
                   structured_output, status_tag, new_name, early_return,
                   traces_temp_path, traces_output_path, rsLocals, services, bootHist,
                   streamHist, trail,
                   start_time>>

\* a bug: the directory is copied, the temp directory stays
Rename_KeepsTemp(fs, name) == [temp |-> fs.temp, out |-> fs.out \cup {name}]

\* Path.rename on the pair (temp directory exists, names under the output
\* root): the temp directory is gone and the new name is present
Rename(fs, name) == [temp |-> FALSE, out |-> fs.out \cup {name}]

\* lines 307-308: traces_temp_path.rename(traces_output_path / new_name)
FinalizeRename ==
    /\ pc = "fin_rename"
    /\ \E ok \in BOOLEAN :
        IF ok
        THEN LET fs == Rename([temp |-> tempExists, out |-> outDir], new_name[1])
             IN  /\ tempExists' = fs.temp
                 /\ outDir' = fs.out
                 /\ finSteps' = Append(finSteps, "rename")
                 /\ pc' = "fin_sleep"
                 /\ UNCHANGED <<exc, ending>>
        ELSE FinalizeFails
    /\ UNCHANGED <<config, device_id, restart_attempt, success, last_state,
                   structured_output, status_tag, new_name, early_return,
                   traces_temp_path, traces_output_path, rsLocals, services, bootHist,
                   streamHist, trail,
                   start_time>>

\* line 310 and the end of the try statement: the exception in flight is
\* re-raised, a pending return returns, otherwise control falls to line 311
LeaveFinally ==
    /\ pc = "fin_sleep"
    /\ IF exc # "none"
       THEN Raise(exc) /\ UNCHANGED recorded
       ELSE IF early_return
            THEN Return(<<"none">>) /\ UNCHANGED recorded
            ELSE pc' = "resolve_output" /\ UNCHANGED ending
    /\ trail' = Append(trail, "finalized")
    /\ UNCHANGED <<config, locals, rsLocals, services, files, bootHist, streamHist>>

(* -------------------- run_automation: output resolution ---------------- *)

\* a bug: no fallback to the last thought
ResolvedResult_NoFallback(so, st) ==
    IF TruthyDict(so) THEN <<"structured", so[1]>> ELSE <<"none">>

\* a bug: the thought is preferred to the structured output
ResolvedResult_ThoughtFirst(so, st) ==
    IF st # None /\ st[1].agents_thoughts # <<>>
    THEN <<"thought", st[1].agents_thoughts[Len(st[1].agents_thoughts)]>>
    ELSE IF TruthyDict(so) THEN <<"structured", so[1]>> ELSE <<"none">>

\* lines 311-320: the value returned; <<"none">> is Python None
ResolvedResult(so, st) ==
    IF TruthyDict(so) THEN <<"structured", so[1]>>
    ELSE IF st # None /\ st[1].agents_thoughts # <<>>
         THEN <<"thought", st[1].agents_thoughts[Len(st[1].agents_thoughts)]>>
         ELSE <<"none">>

\* lines 311-320: record_events for a structured output or a thought, then return
ResolveOutput ==
    /\ pc = "resolve_output"
    /\ LET r == ResolvedResult(structured_output, last_state)
       IN  /\ recorded' = IF r[1] # "none" THEN Append(recorded, r) ELSE recorded
           /\ Return(r)
    /\ trail' = Append(trail, "resolving")
    /\ UNCHANGED <<config, locals, rsLocals, services, files, bootHist, streamHist>>

(* --------------------------- the specification ------------------------- *)

Next ==
    \/ ResolveDevice
    \/ LoopHead
    \/ StartBridge
    \/ PollStatus
    \/ StartScreenApi
    \/ HealthCheck
    \/ CheckServers
    \/ BuildContext
    \/ InvokeGraph
    \/ ConsumeChunk
    \/ StreamRaises
    \/ StreamEnds
    \/ GenerateOutput
    \/ FinalizeBegin
    \/ FinalizeCompile
    \/ FinalizeClean
    \/ FinalizeRename
    \/ LeaveFinally
    \/ ResolveOutput

Spec == Init /\ [][Next]_vars

\* run_automation is one coroutine that is never suspended for good: as long
\* as it has a next step it takes one.  What the calls it makes give back (the
\* status the bridge reports among them) stays free.
FairSpec == Spec /\ WF_vars(Next)

(* ------------------------ notions the claims use ----------------------- *)

\* the number of run_servers calls that returned False
FailedCalls == Cardinality({i \in 1..Len(rsResults) : ~rsResults[i]})

\* a test name was supplied
Traced == TruthyStr(test_name)

\* the stream ended without raising
StreamEnded == streamExit \in {"completed", "nosnapshot"}

\* some chunk of cs is a full snapshot
HasSnapshot(cs) == \E i \in 1..Len(cs) : cs[i][1] = "values"

\* the payload of the last full snapshot of cs, None when there is none
RECURSIVE LastSnapshot(_)
LastSnapshot(cs) ==
    IF cs = <<>> THEN None
    ELSE IF cs[Len(cs)][1] = "values" THEN Some(cs[Len(cs)][2])
         ELSE LastSnapshot(SubSeq(cs, 1, Len(cs) - 1))

\* the most recent thought of an optional payload, as a result
LastThoughtOf(st) ==
    IF st # None /\ st[1].agents_thoughts # <<>>
    THEN <<"thought", st[1].agents_thoughts[Len(st[1].agents_thoughts)]>>
    ELSE <<"none">>

\* two results are the same value
SameResult(a, b) == a[1] = b[1] /\ (a[1] = "none" \/ a[2] = b[2])

\* control has left the finally block of a run that entered the try block
PastFinally ==
    \/ pc \in {"fin_sleep", "resolve_output"}
    \/ pc = "done" /\ streamExit # "none"

\* every finalization step ran and the temp directory became the final one
FinalizationComplete ==
    /\ finSteps = <<"compile", "clean", "rename">>
    /\ ~tempExists
    /\ new_name # None
    /\ new_name[1] \in outDir

(* -------------------------------- claims ------------------------------- *)

\* C1 (as stated): for every N in {1,2,3}, once N calls of run_servers have
\* failed and the failure has been handled, exactly N backoff pauses were made
C1_PausesEqualFailuresUpToThree ==
    \A N \in 1..3 : (FailedCalls = N /\ pc # "rs_check") => sleeps3 = N

\* C1 (amended): for N in {1,2} failed calls followed by a successful one there
\* are exactly N backoff pauses; the stream is opened only after a call that
\* succeeded, all calls before it having failed; a third failed call ends the
\* run after 2 pauses, and no stream is opened
C1_BackoffThenStream ==
    /\ \A N \in 1..2 :
          (FailedCalls = N /\ Len(rsResults) = N + 1 /\ rsResults[N + 1]) => sleeps3 = N
    /\ graphCalls > 0 =>
          /\ rsResults # <<>>
          /\ rsResults[Len(rsResults)]
          /\ \A i \in 1..(Len(rsResults) - 1) : ~rsResults[i]
          /\ sleeps3 = Len(rsResults) - 1
          /\ sleeps3 \in 0..2
    /\ (FailedCalls = 3 /\ pc # "rs_check") =>
          sleeps3 = 2 /\ pc = "done" /\ graphCalls = 0

\* C1: two failed calls, two pauses, then the successful call and the stream
C1_Witness == graphCalls > 0 /\ FailedCalls = 2 /\ sleeps3 = 2

\* C2: run_servers is called at most 3 times; after 3 failed calls the run
\* has returned no result and the planning engine was never invoked
C2_AtMostThreeAttempts ==
    /\ rsCalls <= 3
    /\ FailedCalls = 3 => graphCalls = 0
    /\ (FailedCalls = 3 /\ pc # "rs_check") =>
          /\ pc = "done"
          /\ outcome = "returned"
          /\ result = <<"none">>
          /\ graphCalls = 0

\* C2: the run that ended after three failed calls
C2_Witness == FailedCalls = 3 /\ pc = "done" /\ rsCalls = 3

\* C3: with a test name, every way out of the try block goes through trace
\* finalization; a streaming exception reaches the caller only after every
\* finalization step ran and the temp directory was renamed with the FAIL
\* tag; a run whose stream raised never returns normally
C3_FinalizationBeforeRaise ==
    Traced =>
        /\ PastFinally => status_tag # ""
        /\ (PastFinally /\ error # "finalize") => FinalizationComplete
        /\ (outcome = "raised" /\ error = "stream") =>
              /\ FinalizationComplete
              /\ status_tag = "_FAIL"
              /\ new_name[1] = <<test_name[1], "_FAIL", "_", formatted_ts>>
        /\ (streamExit = "raised" /\ pc = "done") =>
              outcome = "raised" /\ error \in {"stream", "finalize"}

\* C3: the streaming exception has reached the caller of a traced run
C3_Witness ==
    /\ Traced
    /\ streamExit = "raised"
    /\ outcome = "raised"
    /\ error = "stream"
    /\ FinalizationComplete

\* the names {testName}_{status}_{ts} a final directory can have
FinalNames == {<<test_name[1], tag, "_", formatted_ts>> : tag \in {"_PASS", "_FAIL"}}

\* C4: for a traced run, once control has left the finally block exactly one
\* of the temp directory and a final directory {testName}_{status}_{ts}
\* exists, whatever the outcome of the run: the final one when the rename was
\* made, the temp one when a finalization step raised before it
C4_ExactlyOneDirectory ==
    (Traced /\ PastFinally) =>
        /\ outDir \subseteq FinalNames
        /\ Cardinality(outDir) <= 1
        /\ tempExists # (outDir # {})
        /\ new_name # None => (new_name[1] \in FinalNames /\ outDir \subseteq {new_name[1]})

\* C4: a traced run that returned no result, its directory renamed
C4_Witness ==
    /\ Traced
    /\ pc = "done"
    /\ streamExit = "nosnapshot"
    /\ ~tempExists
    /\ new_name[1] \in outDir

\* C5: the tag is PASS exactly when the stream ended without raising and a
\* full snapshot was observed (the success checkpoint), FAIL otherwise; a
\* failure of the outputter leaves it PASS
C5_TagPassIffCheckpoint ==
    status_tag # "" =>
        /\ status_tag \in {"_PASS", "_FAIL"}
        /\ status_tag = "_PASS" <=> (StreamEnded /\ HasSnapshot(consumed))
        /\ status_tag = "_PASS" <=> success
        /\ outputterRaised => status_tag = "_PASS"

\* C5: the outputter raised and the tag is PASS
C5_Witness == status_tag = "_PASS" /\ outputterRaised /\ finSteps # <<>>

\* C6: last_state is the payload of the last full snapshot received
C6_LastWriteWins == last_state = LastSnapshot(consumed)

\* C6: two different snapshots were received, the state is the second
C6_Witness ==
    /\ Len(consumed) >= 2
    /\ consumed[1][1] = "values"
    /\ consumed[2][1] = "values"
    /\ consumed[1][2] # consumed[2][2]
    /\ consumed[1][2].agents_thoughts # <<>>
    /\ last_state = Some(consumed[2][2])

\* C7: when the device lookup yields no device the run has returned no
\* result after that single lookup, without any call of run_servers or of a
\* service start
C7_NoDeviceNoServices ==
    (deviceLookups > 0 /\ ~TruthyStr(device_id)) =>
        /\ pc = "done"
        /\ outcome = "returned"
        /\ result = <<"none">>
        /\ deviceLookups = 1
        /\ rsCalls = 0
        /\ bridgeStarts = 0
        /\ apiStarts = 0
        /\ graphCalls = 0

\* C7: the lookup found no device
C7_Witness == deviceLookups = 1 /\ device_id = None /\ pc = "done"

\* C8: when the outputter raised, the exception is not in flight, the run is
\* marked successful, the tag (if any) is PASS, and unless trace finalization
\* itself raises the run returns the last thought of the final state, or no
\* result when it has no thought
C8_GeneratorFailureCaught ==
    outputterRaised =>
        /\ needs_structured
        /\ success
        /\ structured_output = None
        /\ exc \in {"none", "finalize"}
        /\ status_tag # "" => status_tag = "_PASS"
        /\ pc = "done" => error \in {"none", "finalize"}
        /\ (pc = "done" /\ error # "finalize") =>
              /\ outcome = "returned"
              /\ SameResult(result, LastThoughtOf(LastSnapshot(consumed)))

\* C8: the outputter raised and the run returned the last thought
C8_Witness ==
    /\ outputterRaised
    /\ pc = "done"
    /\ outcome = "returned"
    /\ result[1] = "thought"

\* the run went through output resolution
ReachedResolution == pc = "done" /\ outcome = "returned" /\ streamExit = "completed"

\* C9: the result is the structured output when a non-empty one was produced,
\* else the last thought of the final state when it has one, else nothing;
\* record_events is called once with the result when there is one, and never
\* otherwise
C9_ResultPriority ==
    /\ Len(recorded) <= 1
    /\ recorded # <<>> => ReachedResolution
    /\ ReachedResolution =>
          /\ result[1] \in {"structured", "thought", "none"}
          /\ IF structured_output # None /\ structured_output[1] # {}
             THEN SameResult(result, <<"structured", structured_output[1]>>)
             ELSE SameResult(result, LastThoughtOf(LastSnapshot(consumed)))
          /\ IF result[1] = "none" THEN recorded = <<>>
             ELSE Len(recorded) = 1 /\ SameResult(recorded[1], result)

\* C9: a structured output and a thought were both there
C9_Witness ==
    /\ ReachedResolution
    /\ result[1] = "structured"
    /\ LastThoughtOf(last_state)[1] = "thought"
    /\ Len(recorded) = 1

\* C10: when the stream ended without raising and without a full snapshot,
\* the outputter is not called, nothing is recorded, no exception of the
\* stream is in flight, and unless trace finalization itself raises the run
\* returns no result
C10_NoSnapshotNoResult ==
    (StreamEnded /\ ~HasSnapshot(consumed)) =>
        /\ streamExit = "nosnapshot"
        /\ outputterCalls = 0
        /\ recorded = <<>>
        /\ exc \in {"none", "finalize"}
        /\ pc = "done" => error \in {"none", "finalize"}
        /\ (pc = "done" /\ error # "finalize") =>
              outcome = "returned" /\ result = <<"none">>

\* C10: a stream of side-channel chunks only ended, the run returned nothing
C10_Witness ==
    /\ StreamEnded
    /\ consumed # <<>>
    /\ ~HasSnapshot(consumed)
    /\ pc = "done"
    /\ outcome = "returned"

\* the run ended before streaming: no device was found, or the last allowed
\* call of run_servers has failed and the failure has been handled
FailedBeforeStreaming ==
    \/ deviceLookups > 0 /\ ~TruthyStr(device_id)
    \/ FailedCalls = max_restart_attempts /\ pc # "rs_check"

\* C11: a run that failed before streaming (no device, or bootstrap exhausted)
\* has ended with no result and no error, and did nothing of streaming, trace
\* finalization or output resolution: no graph, no chunk, no outputter; even
\* with a test name neither trace directory was created, nothing was compiled
\* or renamed, nothing was written to the results sink and no thought was
\* handed to log_agent_thoughts
C11_FailedRunTouchesNothing ==
    FailedBeforeStreaming =>
        /\ pc = "done" /\ outcome = "returned" /\ result = <<"none">>
        /\ graphCalls = 0 /\ consumed = <<>> /\ streamExit = "none"
        /\ outputterCalls = 0
        /\ traces_temp_path = None /\ traces_output_path = None
        /\ ~tempExists /\ outDir = {}
        /\ finSteps = <<>> /\ status_tag = "" /\ new_name = None
        /\ recorded = <<>> /\ logCalls = <<>>
        /\ \A i \in 1..Len(trail) : trail[i] = "bootstrap"

\* C11: a run with a test name used up its attempts
C11_Witness ==
    /\ Traced
    /\ FailedCalls = max_restart_attempts
    /\ pc = "done"

\* the number of health probes of the run that failed
FailedProbes == Cardinality({i \in 1..Len(probes) : ~probes[i]})

\* this call of run_servers performed step k
Did(k) == \E i \in 1..Len(attemptLog) : attemptLog[i][1] = k

\* the health probe of this call of run_servers has failed
ProbeFailed ==
    attemptLog # <<>> /\ attemptLog[Len(attemptLog)] = <<"health", FALSE>>

\* C12: stop_servers is called exactly once per failed health probe, always
\* asking to stop exactly the services that are not pre-configured; when
\* run_servers has returned after a failed probe it returned False, and no
\* service this call started is still running
C12_FailedProbeStopsOwnServices ==
    /\ Len(stopCalls) = FailedProbes
    /\ \A i \in 1..Len(stopCalls) :
          /\ stopCalls[i][1] = ~api_url_set
          /\ stopCalls[i][2] = ~bridge_url_set
    /\ ProbeFailed =>
          /\ pc = "rs_check" => ~success
          /\ Len(rsResults) = rsCalls /\ ~rsResults[rsCalls]
          /\ Did("bridge_start") => ~bridgeLive
          /\ Did("api_start") => ~apiLive

\* C12: a probe failed in a call that had started the bridge itself while the
\* screen API was pre-configured
C12_Witness ==
    /\ ProbeFailed
    /\ pc = "rs_check"
    /\ Did("bridge_start")
    /\ api_url_set
    /\ stopCalls = <<<<FALSE, TRUE>>>>

\* the optional one-entry trail
Entry(present, name) == IF present THEN <<name>> ELSE <<>>

\* phase q was entered, and phase p was entered before it
Before(p, q) ==
    \E j \in 1..Len(trail) : trail[j] = q /\ \E i \in 1..(j - 1) : trail[i] = p

\* run_automation returned after it had opened the stream
ReturnedAfterStream == pc = "done" /\ outcome = "returned" /\ graphCalls > 0

\* C13 (as stated): the outputter is invoked, and the result is selected, only
\* after the finally block with the trace finalization has been left
C13_GeneratorAfterFinalization ==
    \A i \in 1..Len(trail) :
        trail[i] \in {"outputter", "resolving"} =>
            \E j \in 1..(i - 1) : trail[j] = "finalized"

\* C13 (amended): a run that returned after opening the stream went through
\* bootstrap, context build, streaming, the finally block and, when the stream
\* gave a snapshot, output selection, in this order; a traced one completed
\* its trace finalization before selecting.  The outputter, called exactly
\* when a structured output is wanted and the stream gave a snapshot, is
\* invoked inside the try block: after streaming and before the finally block,
\* only the selection of the result, its recording and the return come after
C13_PhasesInOrder ==
    /\ ReturnedAfterStream =>
          /\ trail = <<"bootstrap", "context", "streaming">>
                     \o Entry(outputterCalls > 0, "outputter")
                     \o <<"finalizing", "finalized">>
                     \o Entry(streamExit = "completed", "resolving")
          /\ outputterCalls > 0 <=> (needs_structured /\ streamExit = "completed")
          /\ IF Traced THEN FinalizationComplete ELSE finSteps = <<>>
    /\ \A i \in 1..Len(trail) :
          /\ trail[i] = "resolving" => Before("finalized", "resolving")
          /\ trail[i] = "outputter" =>
                /\ trail[i - 1] = "streaming"
                /\ \A j \in 1..i : trail[j] # "finalizing"

\* C13: a traced run with a structured output returned it
C13_Witness ==
    /\ ReturnedAfterStream
    /\ Traced
    /\ FinalizationComplete
    /\ outputterCalls = 1
    /\ result[1] = "structured"
    /\ trail[Len(trail)] = "resolving"

\* the statuses this call of run_servers has read, in order (a run of
\* STARTING reads counting once)
IsStatusRead(e) == e[1] = "status"
StatusReads == SelectSeq(attemptLog, IsStatusRead)

\* the status read last by this call of run_servers, "none" before any read
LastRead == IF StatusReads = <<>> THEN "none" ELSE StatusReads[Len(StatusReads)][2]

\* C14: in one call of run_servers every status read before the last one is
\* STARTING, and the poller is waiting for another read only when it has read
\* nothing yet or STARTING; after RUNNING the call has gone on to the screen
\* API step; after NO_DEVICE, FAILED, PORT_IN_USE or STOPPED the call has
\* returned False without doing anything else
C14_PollerStopsAtTerminalStatus ==
    /\ \A i \in 1..(Len(StatusReads) - 1) : StatusReads[i][2] = "STARTING"
    /\ pc = "rs_poll" <=> (Did("bridge_start") /\ LastRead \in {"none", "STARTING"}
                             /\ attemptLog[Len(attemptLog)] # <<"bridge_start", FALSE>>
                             /\ Len(rsResults) < rsCalls)
    /\ LastRead = "RUNNING" =>
          \/ pc = "rs_api"
          \/ api_url_set /\ pc = "rs_health"
          \/ Did("api_start")
          \/ Did("health")
    /\ LastRead \in {"NO_DEVICE", "FAILED", "PORT_IN_USE", "STOPPED"} =>
          /\ attemptLog[Len(attemptLog)] = <<"status", LastRead>>
          /\ Len(rsResults) = rsCalls /\ ~rsResults[rsCalls]
          /\ pc = "rs_check" => ~success

\* C14: the poller read STARTING, then a terminal failure value, and the call
\* has returned
C14_Witness ==
    /\ Len(StatusReads) = 2
    /\ LastRead = "PORT_IN_USE"
    /\ pc = "rs_check"

\* control is past the retry loop of lines 191-206, or the run has ended
LeftBootstrap ==
    pc \notin {"resolve", "loop", "rs_bridge", "rs_poll", "rs_api", "rs_health",
               "rs_check"}

\* the poller is waiting to read again after a read of STARTING
PollingStarting == pc = "rs_poll" /\ status = "STARTING"

\* C15 (as stated): whatever statuses the bridge reports, a bridge that stays
\* in STARTING included, run_servers is called at most 3 times and the run
\* eventually leaves the retry loop
C15_BootstrapAlwaysEnds ==
    [](rsCalls <= 3) /\ <>LeftBootstrap

\* C15 (amended): run_servers is called at most 3 times, and the run
\* eventually leaves the retry loop unless from some point on the poller of
\* one call reads STARTING for ever
C15_BootstrapEndsUnlessStarting ==
    [](rsCalls <= 3) /\ (<>LeftBootstrap \/ <>[]PollingStarting)

\* C15: the retry loop was left with the last allowed call, whose poller had
\* read STARTING before a terminal status
C15_Witness ==
    /\ LeftBootstrap
    /\ rsCalls = max_restart_attempts
    /\ Len(StatusReads) = 2

\* a step of the trace finalization has raised
FinalizationFailed == finSteps # <<>> /\ finSteps[Len(finSteps)] = "failed"

\* C16: when a finalization step has raised, the run has ended by raising the
\* finalization error, whether the stream had raised, had completed or had
\* given no snapshot: the error of the stream is not what the caller gets, no
\* result is returned and nothing was written to the results sink
C16_FinalizationErrorWins ==
    FinalizationFailed =>
        /\ streamExit \in {"raised", "completed", "nosnapshot"}
        /\ pc = "done"
        /\ outcome = "raised"
        /\ error = "finalize"
        /\ result = <<"none">>
        /\ recorded = <<>>

\* C16: the stream raised after a snapshot with a thought, then a step of the
\* finalization raised
C16_Witness ==
    /\ FinalizationFailed
    /\ streamExit = "raised"
    /\ LastThoughtOf(last_state)[1] = "thought"
    /\ error = "finalize"

\* the place of a step in one call of run_servers
Rank(k) ==
    CASE k = "bridge_start" -> 1
      [] k = "status" -> 2
      [] k = "api_start" -> 3
      [] k = "health" -> 4

\* the step e succeeded, so that run_servers goes on after it
StepSucceeded(e) ==
    CASE e[1] = "bridge_start" -> e[2]
      [] e[1] = "status" -> e[2] \in {"STARTING", "RUNNING"}
      [] e[1] = "api_start" -> e[2] = "process"
      [] e[1] = "health" -> e[2]

\* C17: the steps of one call of run_servers come in the order bridge start,
\* status reads, screen API start, health probe, each at most once but for
\* the reads; a step is taken only when every step before it succeeded, the
\* screen API start and the probe only after a read of RUNNING when the call
\* started the bridge; and a call returned True only if its last step is a
\* health probe that succeeded
C17_StepsInOrder ==
    /\ \A i \in 1..(Len(attemptLog) - 1) :
          /\ StepSucceeded(attemptLog[i])
          /\ Rank(attemptLog[i][1]) <= Rank(attemptLog[i + 1][1])
          /\ Rank(attemptLog[i][1]) = Rank(attemptLog[i + 1][1]) =>
                attemptLog[i] = <<"status", "STARTING">>
          /\ attemptLog[i] = <<"status", "STARTING">> => attemptLog[i + 1][1] = "status"
          /\ attemptLog[i] = <<"bridge_start", TRUE>> => attemptLog[i + 1][1] = "status"
          /\ attemptLog[i + 1][1] = "health" =>
                attemptLog[i][1] = "api_start" \/ api_url_set
    /\ (Len(rsResults) = rsCalls /\ rsCalls > 0 /\ rsResults[rsCalls]) =>
          attemptLog # <<>> /\ attemptLog[Len(attemptLog)] = <<"health", TRUE>>
    /\ \A i \in 1..(Len(rsResults) - 1) : ~rsResults[i]
    /\ (attemptLog # <<>> /\ ~StepSucceeded(attemptLog[Len(attemptLog)])) =>
          Len(rsResults) = rsCalls /\ ~rsResults[rsCalls]

\* C17: a call went through all four steps and returned True
C17_Witness ==
    /\ Len(attemptLog) = 4
    /\ attemptLog[1] = <<"bridge_start", TRUE>>
    /\ attemptLog[2] = <<"status", "RUNNING">>
    /\ attemptLog[3] = <<"api_start", "process">>
    /\ attemptLog[4] = <<"health", TRUE>>
    /\ pc = "rs_check"
    /\ success

\* the current call of run_servers has returned
CallReturned == rsCalls > 0 /\ Len(rsResults) = rsCalls

\* C19: a service whose address is pre-configured is left alone.  With the
\* bridge address set the bridge is never started and its status never read,
\* and no stop_servers call names it; with the screen API address set the API
\* is never started, no handle is held or terminated, and no stop_servers
\* call names it.  The health probe is made all the same: with both addresses
\* set every call of run_servers consists of the probe alone and returns its
\* result
C19_PreconfiguredUntouched ==
    /\ bridge_url_set =>
          /\ bridgeStarts = 0 /\ ~bridgeLive
          /\ ~Did("bridge_start") /\ ~Did("status") /\ status = "none"
          /\ \A i \in 1..Len(stopCalls) : ~stopCalls[i][2]
    /\ api_url_set =>
          /\ apiStarts = 0 /\ ~apiLive
          /\ ~Did("api_start") /\ api_process = "none"
          /\ terminateCalls = 0
          /\ \A i \in 1..Len(stopCalls) : ~stopCalls[i][1]
    /\ (bridge_url_set /\ api_url_set /\ CallReturned) =>
          /\ attemptLog = <<<<"health", rsResults[rsCalls]>>>>
          /\ Len(probes) = rsCalls

\* C19: with both addresses set the probe of the first call failed and the
\* second call was made
C19_Witness ==
    /\ bridge_url_set
    /\ api_url_set
    /\ probes = <<FALSE, TRUE>>
    /\ stopCalls = <<<<FALSE, FALSE>>>>
    /\ pc = "rs_check"

\* C20 (as stated): whenever the current call of run_servers has returned
\* False, whatever step failed, no bridge and no screen API that run_servers
\* started is still running; so none is running when the next call starts or
\* when the run ends after the last failed call
C20_NothingLeftRunningAfterFailure ==
    (CallReturned /\ ~rsResults[rsCalls]) => (~bridgeLive /\ ~apiLive)

====
